---- MODULE Spec2Model ----
(***************************************************************************)
(* WikiFaces: round orchestration and pairing engine of the modular game   *)
(* (src/js/wikifaces.js lines 960-1573 with src/js/renderer.js).           *)
(*                                                                         *)
(* The browser runs one handler at a time (single thread, run to           *)
(* completion); every action below is one handler: a user gesture, a timer *)
(* callback, an image event or the continuation of a settled fetch.        *)
(* Handlers are written as functions from the program state (the record    *)
(* St) to the set of states the handler can leave behind; the choices of   *)
(* Math.random() are the only source of that set having several members.   *)
(***************************************************************************)
EXTENDS Integers, Sequences, FiniteSets, TLC

\* ------------------------------------------------------------------ bounds
\* The player answers (clicks a name button) MaxAnswers times in one behaviour
\* and makes no further gesture after that; timers, image events and fetches
\* still complete.  SpecLastGesture follows the behaviours one step further:
\* one more gesture, on the result overlay of the last answer, after which
\* nothing is followed (history.ended).  SpecLongGame does the same for one
\* dataset (DataPairs) and one answer more.
MaxAnswers == 3
\* Number of portrait load errors (img.onerror) in one behaviour.
MaxImageErrors == 1
\* Number of lines of a CSV text given to parseCSV (SpecParse).
MaxLines == 4

\* ------------------------------------------------------- program constants
MAX_ROUNDS == 2
maxAttempts == 50
maxGroupPicks == 100
\* UTF-16 code unit of "|", the separator used by join("|")
BAR == 124
\* code units of ";" and of "\n", the separators of parseCSV
SEMI == 59
LF == 10

\* ---------------------------------------------------------------- datasets
\* A record of portraits[] as built by parseCSV: the fields the engine reads.
\* person (the id) is a string, modelled as its sequence of UTF-16 code units
\* (81 = "Q", 49 = "1", ...), so that sort() and join("|") act on it as in JS.
Person(nk, id, label) == [namekey |-> nk, person |-> id, personLabel |-> label]

Q1 == <<81, 49>>
Q2 == <<81, 50>>
Q3 == <<81, 51>>
Q4 == <<81, 52>>

\* spec.md section 8: A1/Alex, A2/Alex, B1/Sam: one eligible name group.
DataAlex == << Person("alex", Q1, "Alex One"), Person("alex", Q2, "Alex Two"),
               Person("sam", Q3, "Sam One") >>
\* two homonymous people whose display labels are equal too
DataSameLabel == << Person("jan", Q1, "Jan Smit"), Person("jan", Q2, "Jan Smit") >>
\* the same person listed twice in a name group (two image rows of one id)
DataDupId == << Person("anna", Q1, "Anna Bijns"), Person("anna", Q1, "Anna Bijns") >>
\* one name group of three people: three unordered pairs
DataThree == << Person("kees", Q1, "Kees A"), Person("kees", Q2, "Kees B"),
                Person("kees", Q3, "Kees C") >>
\* two name groups of two people: two unordered pairs
DataPairs == << Person("jan", Q1, "Jan A"), Person("jan", Q2, "Jan B"),
                Person("piet", Q3, "Piet A"), Person("piet", Q4, "Piet B") >>
\* fewer than two records: loadNewRound returns at once
DataSingle == << Person("alex", Q1, "Alex One") >>

\* one name group of four people, two of whose ids contain the "|" that
\* join("|") puts between the ids: "a|b", "c", "a", "b|c"
DataBarIds == << Person("mia", <<97, 124, 98>>, "Mia A"), Person("mia", <<99>>, "Mia B"),
                 Person("mia", <<97>>, "Mia C"), Person("mia", <<98, 124, 99>>, "Mia D") >>

Datasets == {DataAlex, DataSameLabel, DataDupId, DataThree, DataPairs, DataSingle}

\* ----------------------------------------------------------- pair selector
NullPair == <<0, 0>>
NoPair == <<>>

\* a < b in the order of String.prototype's default comparison (code units)
RECURSIVE StrLess(_, _)
StrLess(a, b) ==
    IF b = <<>> THEN FALSE
    ELSE IF a = <<>> THEN TRUE
    ELSE IF Head(a) # Head(b) THEN Head(a) < Head(b)
    ELSE StrLess(Tail(a), Tail(b))

\* [x, y].sort()
Sort2(x, y) == IF StrLess(y, x) THEN <<y, x>> ELSE <<x, y>>

\* [a, b].join("|")
Join2(pr) == pr[1] \o <<BAR>> \o pr[2]

\* [pair[0].person, pair[1].person].sort().join("|")
PairKey(ps, pair) == Join2(Sort2(ps[pair[1]].person, ps[pair[2]].person))

\* portraits.filter(p => p.namekey === candidateKey), as record indexes
RECURSIVE FilterIdx(_, _, _)
FilterIdx(ps, nk, i) ==
    IF i > Len(ps) THEN <<>>
    ELSE (IF ps[i].namekey = nk THEN <<i>> ELSE <<>>) \o FilterIdx(ps, nk, i + 1)

\* portraits.filter(...) without its namekey test: every record passes.
\* (A defective variant.)
NameGroupUnfiltered(ps, nk) == [i \in 1..Len(ps) |-> i]

NameGroup(ps, nk) == FilterIdx(ps, nk, 1)

\* [...new Set(portraits.map(p => p.namekey))]
UniqueNameKeys(ps) == {ps[i].namekey : i \in 1..Len(ps)}

\* The possible results of getTwoDistinctPeople: two different INDEXES of the
\* group, each drawn with Math.random().
getTwoDistinctPeople(group) ==
    IF Len(group) < 2 THEN {NullPair}
    ELSE {<<group[i], group[j]>> : i, j \in 1..Len(group)} \
             {<<group[i], group[i]>> : i \in 1..Len(group)}

\* The do-while loop without its usedPairs.has(pairKey) test: the first draw
\* is returned.  (A defective variant, used to show what rests on the test.)
DrawLoopAnyDraw(ps, group, used) ==
    {[pair |-> p, usedPairs |-> used \cup {PairKey(ps, p)}] :
        p \in getTwoDistinctPeople(group)}

\* The do-while loop with `usedPairs.add(pairKey)` inside it: the key of the
\* last draw is added also when the function gives up.  (A defective variant.)
DrawLoopAddsInLoop(ps, group, used) ==
    LET draws == getTwoDistinctPeople(group)
        hits == {d \in draws : d # NullPair /\ PairKey(ps, d) \in used}
        reach(n) == n = 1 \/ hits # {}
        result(p) == IF p = NullPair THEN [pair |-> NullPair, usedPairs |-> used]
                     ELSE [pair |-> p, usedPairs |-> used \cup {PairKey(ps, p)}]
    IN  (IF \E n \in 1..(maxAttempts - 1) : reach(n)
         THEN {result(p) : p \in draws \ hits} ELSE {})
          \cup (IF reach(maxAttempts)
                THEN {[pair |-> NullPair,
                       usedPairs |-> IF p = NullPair THEN used
                                     ELSE used \cup {PairKey(ps, p)}] : p \in draws}
                ELSE {})

\* The do-while loop of selectUniquePairFrom, by the draw n after which it is
\* left (then attempts = n): draws 1..n-1 hit used keys, and draw n either is
\* unused (n < maxAttempts: the pair is returned and its key added) or is the
\* last permitted one (attempts >= maxAttempts: [null, null] whatever was drawn).
\* The results are [pair, usedPairs].
DrawLoop(ps, group, used) ==
    LET draws == getTwoDistinctPeople(group)
        hits == {d \in draws : d # NullPair /\ PairKey(ps, d) \in used}
        null == [pair |-> NullPair, usedPairs |-> used]
        reach(n) == n = 1 \/ hits # {}
        result(p) == IF p = NullPair THEN null
                     ELSE [pair |-> p, usedPairs |-> used \cup {PairKey(ps, p)}]
    IN  (IF \E n \in 1..(maxAttempts - 1) : reach(n)
         THEN {result(p) : p \in draws \ hits} ELSE {})
          \cup (IF reach(maxAttempts) THEN {null} ELSE {})

\* selectUniquePairFrom without the `attempts >= maxAttempts` test after the
\* loop: the pair drawn last is returned, used or not.  (A defective variant.)
selectUniquePairFromNoGiveUp(ps, group, used) ==
    IF Len(group) < 2 THEN {[pair |-> NullPair, usedPairs |-> used]}
    ELSE LET draws == getTwoDistinctPeople(group)
             hits == {d \in draws : PairKey(ps, d) \in used}
         IN  {[pair |-> p, usedPairs |-> used \cup {PairKey(ps, p)}] :
                 p \in IF hits # {} /\ maxAttempts > 0 THEN draws ELSE draws \ hits}

selectUniquePairFrom(ps, group, used) ==
    IF Len(group) < 2 THEN {[pair |-> NullPair, usedPairs |-> used]}
    ELSE DrawLoop(ps, group, used)

\* The while loop of selectValidPersonPair, by the pick n that returns.  A
\* failed pick leaves usedPairs as it was, so every pick faces the same name
\* groups and the same usedPairs: `found` are the results of a pick that
\* returns, canMiss says whether a pick can fail, `none` is the result when
\* all maxGroupPicks picks failed.
GroupLoop(found, canMiss, none) ==
    (IF \E n \in 1..maxGroupPicks : n = 1 \/ canMiss THEN found ELSE {})
      \cup (IF canMiss \/ maxGroupPicks = 0 THEN {none} ELSE {})

selectValidPersonPair(ps, used) ==
    LET keys == UniqueNameKeys(ps)
        res(nk) == IF Len(NameGroup(ps, nk)) >= 2
                   THEN selectUniquePairFrom(ps, NameGroup(ps, nk), used)
                   ELSE {}
        found == UNION {{r \in res(nk) : r.pair # NullPair} : nk \in keys}
        canMiss == keys = {} \/ \E nk \in keys :
                       \/ Len(NameGroup(ps, nk)) < 2
                       \/ \E r \in res(nk) : r.pair = NullPair
    IN  GroupLoop(found, canMiss, [pair |-> NoPair, usedPairs |-> used])

\* ---------------------------------------------------------------- parseCSV
\* JavaScript values that can be passed as `text`: strings are sequences of
\* code units.
JsString(units) == [type |-> "string", value |-> units]
JsNull == [type |-> "null", value |-> <<>>]
JsUndefined == [type |-> "undefined", value |-> <<>>]
JsNumber == [type |-> "number", value |-> <<5>>]
JsArray == [type |-> "object", value |-> <<>>]

\* white space and line terminators removed by String.prototype.trim
\* (tab, LF, VT, FF, CR, space)
WS == {9, 10, 11, 12, 13, 32}

RECURSIVE trimStart(_)
trimStart(str) == IF str # <<>> /\ Head(str) \in WS THEN trimStart(Tail(str)) ELSE str

RECURSIVE trimEnd(_)
trimEnd(str) ==
    IF str # <<>> /\ str[Len(str)] \in WS
    THEN trimEnd(SubSeq(str, 1, Len(str) - 1)) ELSE str

trim(str) == trimEnd(trimStart(str))

\* str.split(sep) for a separator of one code unit: at least one part
RECURSIVE split(_, _)
split(str, sep) ==
    IF \A i \in 1..Len(str) : str[i] # sep THEN <<str>>
    ELSE LET i == CHOOSE k \in 1..Len(str) :
                      str[k] = sep /\ \A j \in 1..(k - 1) : str[j] # sep
         IN  <<SubSeq(str, 1, i - 1)>> \o split(SubSeq(str, i + 1, Len(str)), sep)

\* toUpperCase of one code unit (a-z only, the letters of the inputs)
toUpperCase(c) == IF c \in 97..122 THEN c - 32 ELSE c

capitalizeFirstLetter(text) ==
    IF text = <<>> THEN text ELSE <<toUpperCase(Head(text))>> \o Tail(text)

\* the `null` the map callback returns for a malformed row
NullRow == [null |-> TRUE]

\* the map callback of parseCSV
parseRow(line) ==
    LET raw == split(line, SEMI)
        parts == [i \in 1..Len(raw) |-> trim(raw[i])]
    IN  IF Len(parts) < 6 THEN NullRow
        ELSE [namekey |-> parts[1], imageurl |-> parts[2], person |-> parts[3],
              personLabel |-> parts[4],
              personDescription |-> capitalizeFirstLetter(parts[5]),
              wikipediaENurl |-> parts[6]]

notNull(entry) == entry # NullRow

\* parseCSV that does not skip the first line.  (A defective variant.)
parseCSVKeepsHeader(text) ==
    IF text.type # "string" \/ text.value = <<>> THEN <<>>
    ELSE LET lines == split(trim(text.value), LF)
         IN  IF Len(lines) < 2 THEN <<>>
             ELSE SelectSeq([i \in 1..Len(lines) |-> parseRow(lines[i])], notNull)

\* `!text || typeof text !== "string"` holds for every value that is not a
\* non-empty string.
parseCSV(text) ==
    IF text.type # "string" \/ text.value = <<>> THEN <<>>
    ELSE LET lines == split(trim(text.value), LF)
         IN  IF Len(lines) < 2 THEN <<>>
             ELSE SelectSeq([i \in 1..(Len(lines) - 1) |-> parseRow(lines[i + 1])], notNull)

\* Lines of CSV texts: a header, complete rows (one with padded fields and a
\* CR, one with seven fields, one with six empty fields), a row of five
\* fields, an empty line and a line of one space.
LineHeader == <<110, 59, 105, 59, 112, 59, 108, 59, 100, 59, 119>>
LineRowPadded == <<32, 97, 32, 59, 98, 59, 99, 59, 100, 59, 32, 101, 59, 102, 13>>
LineRowSeven == <<103, 59, 104, 59, 105, 59, 106, 59, 107, 59, 108, 59, 109>>
LineRowEmptyFields == <<59, 59, 59, 59, 59>>
LineRowFive == <<97, 59, 98, 59, 99, 59, 100, 59, 101>>
LineEmpty == <<>>
LineSpace == <<32>>

CsvLines == {LineHeader, LineRowPadded, LineRowSeven, LineRowEmptyFields,
             LineRowFive, LineEmpty, LineSpace}

\* lines.join("\n")
RECURSIVE joinLines(_)
joinLines(lines) ==
    IF Len(lines) = 1 THEN lines[1]
    ELSE lines[1] \o <<LF>> \o joinLines(Tail(lines))

\* the values given to parseCSV: the texts of 1..MaxLines lines and four
\* values that are not strings
CsvInputs ==
    {JsString(joinLines(ls)) :
        ls \in UNION {[1..n -> CsvLines] : n \in 1..MaxLines}}
      \cup {JsNull, JsUndefined, JsNumber, JsArray}

\* ------------------------------------------------------------------- state
VARIABLES
    csv,                \* the argument of parseCSV and what it returned
    run,                \* a call of selectValidPersonPair followed loop by loop
    portraits,          \* let portraits: the parsed dataset (<<>> until fetched)
    correctPerson,      \* index into portraits, 0 = null
    incorrectPerson,    \* index into portraits, 0 = null
    score,              \* [correct, wrong]
    usedPairs,          \* Set of pair keys
    buttons,            \* children of #buttons: the records behind the two
                        \* name buttons, in display order (<<>> = none)
    nameOptionsDisplay, \* #buttons style.display: "" (stylesheet: flex), "none", "flex"
    overlay,            \* the #overlay element inside #wiki-info (unlocked is
                        \* observation only)
    makeOrBreak,        \* number of #make-or-break elements in the document
    cleanStrike,        \* number of #clean-strike elements in the document
    gameEnd,            \* the #game-end-overlay elements, in document order
    spinner,            \* #portrait-spinner displayed
    loadingNotice,      \* number of #portrait-loading-notice elements
    loadErrors,         \* number of .portrait-load-error messages displayed
    portraitImage,      \* record whose image is the #portrait background, 0 = none
    imageLoads,         \* Image objects whose load/error event is still to come
    showTimers,         \* pending BUTTON_SHOW_DELAY timers, oldest first
    fetches,            \* summary fetches in flight
    lockTimers,         \* pending NEXT_ROUND_LOCK timers, oldest first
    history             \* what the handlers did (observation only)

\* history.last: what the handler that ran last did, if it was an answer
\*   evaluation (op = "eval") or a loadNewRound that reached the selector
\*   (op = "round"); any other handler leaves Nothing;
\* history.keys: pair keys of the rounds of this session for which name buttons
\*   were created; history.repeated: one of them was created twice;
\* history.load: the portrait load of the newest round;
\* tieScreens: the make-or-break screens shown since the last resetGame;
\* evals: the evaluations since name buttons were last created;
\* answers, sessionAnswers, imageErrors: evaluations and load errors counted;
\* ended: the gesture after the last answer has been made;
\* budget: the number of answers of the behaviour (fixed at the start).
Nothing == [op |-> "other"]
NoHistory == [last |-> Nothing, keys |-> {}, repeated |-> FALSE, load |-> "none",
              answers |-> 0, sessionAnswers |-> 0, imageErrors |-> 0,
              tieScreens |-> 0, evals |-> 0, ended |-> FALSE,
              budget |-> MaxAnswers]

vars == <<portraits, correctPerson, incorrectPerson, score, usedPairs, buttons,
          nameOptionsDisplay, overlay, makeOrBreak, cleanStrike, gameEnd,
          spinner, loadingNotice, loadErrors, portraitImage, imageLoads,
          showTimers, fetches, lockTimers, history, csv, run>>

\* The program state as one value, the argument and result of the handlers
\* (a handler starts with nothing noted in history.last).
St == [portraits |-> portraits, correctPerson |-> correctPerson,
       incorrectPerson |-> incorrectPerson, score |-> score,
       usedPairs |-> usedPairs, buttons |-> buttons,
       nameOptionsDisplay |-> nameOptionsDisplay, overlay |-> overlay,
       makeOrBreak |-> makeOrBreak, cleanStrike |-> cleanStrike,
       gameEnd |-> gameEnd, spinner |-> spinner,
       loadingNotice |-> loadingNotice, loadErrors |-> loadErrors,
       portraitImage |-> portraitImage, imageLoads |-> imageLoads,
       showTimers |-> showTimers, fetches |-> fetches,
       lockTimers |-> lockTimers,
       history |-> [history EXCEPT !.last = Nothing]]

Commit(t) ==
    /\ portraits' = t.portraits
    /\ correctPerson' = t.correctPerson
    /\ incorrectPerson' = t.incorrectPerson
    /\ score' = t.score
    /\ usedPairs' = t.usedPairs
    /\ buttons' = t.buttons
    /\ nameOptionsDisplay' = t.nameOptionsDisplay
    /\ overlay' = t.overlay
    /\ makeOrBreak' = t.makeOrBreak
    /\ cleanStrike' = t.cleanStrike
    /\ gameEnd' = t.gameEnd
    /\ spinner' = t.spinner
    /\ loadingNotice' = t.loadingNotice
    /\ loadErrors' = t.loadErrors
    /\ portraitImage' = t.portraitImage
    /\ imageLoads' = t.imageLoads
    /\ showTimers' = t.showTimers
    /\ fetches' = t.fetches
    /\ lockTimers' = t.lockTimers
    /\ history' = t.history
    /\ UNCHANGED <<csv, run>>

\* the step that leaves the one state x
Do(x) == \E t \in {x} : Commit(t)

\* wikiInfo.innerHTML = "": no #overlay element
NoOverlay == [exists |-> FALSE, listeners |-> 0, pointerEvents |-> "auto",
              extract |-> "", unlocked |-> FALSE]

\* the state after construction, with h for the observations
\* parseCSV has not been called
NoCsv == [text |-> JsUndefined, parsed |-> FALSE, result |-> <<>>]

\* no call of selectValidPersonPair is followed.  pc: the place in the code;
\* picks: `attempts` of selectValidPersonPair; draws: `attempts` of the
\* selectUniquePairFrom call in progress; group, first: nameGroup and
\* firstIndex; fresh: a draw of this selectUniquePairFrom call had a key that
\* was not in usedPairs; missed: a selectUniquePairFrom call returned
\* [null, null] although one of its draws had such a key (both observation
\* only); result: the value returned.
NoSel == [pc |-> "idle", picks |-> 0, draws |-> 0, group |-> <<>>, first |-> 0,
          fresh |-> FALSE, missed |-> FALSE, result |-> NoPair]

Start(h) ==
    /\ csv = NoCsv
    /\ run = NoSel
    /\ portraits = <<>>
    /\ correctPerson = 0
    /\ incorrectPerson = 0
    /\ score = [correct |-> 0, wrong |-> 0]
    /\ usedPairs = {}
    /\ buttons = <<>>
    /\ nameOptionsDisplay = ""
    /\ overlay = NoOverlay
    /\ makeOrBreak = 0
    /\ cleanStrike = 0
    /\ gameEnd = <<>>
    /\ spinner = FALSE
    /\ loadingNotice = 0
    /\ loadErrors = 0
    /\ portraitImage = 0
    /\ imageLoads = <<>>
    /\ showTimers = <<>>
    /\ fetches = <<>>
    /\ lockTimers = <<>>
    /\ history = h

Init == Start(NoHistory)

InitLongGame == Start([NoHistory EXCEPT !.budget = MaxAnswers + 1])

\* parseCSV is about to be called with one of CsvInputs
InitParse ==
    /\ csv \in {[NoCsv EXCEPT !.text = x] : x \in CsvInputs}
    /\ run = NoSel
    /\ portraits = <<>>
    /\ correctPerson = 0
    /\ incorrectPerson = 0
    /\ score = [correct |-> 0, wrong |-> 0]
    /\ usedPairs = {}
    /\ buttons = <<>>
    /\ nameOptionsDisplay = ""
    /\ overlay = NoOverlay
    /\ makeOrBreak = 0
    /\ cleanStrike = 0
    /\ gameEnd = <<>>
    /\ spinner = FALSE
    /\ loadingNotice = 0
    /\ loadErrors = 0
    /\ portraitImage = 0
    /\ imageLoads = <<>>
    /\ showTimers = <<>>
    /\ fetches = <<>>
    /\ lockTimers = <<>>
    /\ history = NoHistory

\* ------------------------------------------------------ sequences, helpers
RemoveAt(seq, i) == SubSeq(seq, 1, i - 1) \o SubSeq(seq, i + 1, Len(seq))

\* the elements of seq no longer belong to the newest round / overlay
Stale(seq) == [i \in 1..Len(seq) |-> [seq[i] EXCEPT !.cur = FALSE]]

\* ---------------------------------------------------------------- renderer
clearNameButtons(s) == [s EXCEPT !.buttons = <<>>, !.nameOptionsDisplay = "none"]

\* the #overlay element leaves the document: fetches that hold its
\* #wiki-extract and lock timers started for it now belong to no overlay
clearOverlay(s) ==
    [s EXCEPT !.overlay = NoOverlay, !.fetches = Stale(@), !.lockTimers = Stale(@)]

createNameButtons(s, namesPair) == [clearNameButtons(s) EXCEPT !.buttons = namesPair]

createOverlayHTML(s) ==
    [s EXCEPT !.overlay = [exists |-> TRUE, listeners |-> 0,
                           pointerEvents |-> "auto", extract |-> "",
                           unlocked |-> FALSE],
              !.fetches = Stale(@), !.lockTimers = Stale(@)]

\* the synchronous part of fetchWikiExtract: placeholder text, request sent
fetchWikiExtract(s) ==
    [s EXCEPT !.overlay.extract = IF s.overlay.exists THEN "loading" ELSE @,
              !.fetches = Append(@, [cur |-> s.overlay.exists])]

showMakeOrBreakScreen(s) ==
    [s EXCEPT !.makeOrBreak = @ + 1, !.history.tieScreens = @ + 1]

showCleanStrikeScreen(s) == [s EXCEPT !.cleanStrike = @ + 1]

renderGameEndOverlay(s, won) ==
    [s EXCEPT !.gameEnd = Append(@, [won |-> won, buttons |-> 0]),
              !.overlay.pointerEvents = IF s.overlay.exists THEN "none" ELSE @]

\* document.getElementById("game-end-overlay") is the first such element
attachPlayAgainButton(s) ==
    IF s.gameEnd = <<>> THEN s
    ELSE [s EXCEPT !.gameEnd[1].buttons = @ + 1]

showImageLoadError(s) == [s EXCEPT !.loadErrors = @ + 1]

\* showImageLoadingNotice without `if (getElementById(...)) return`.
\* (A defective variant.)
showImageLoadingNoticeNoTest(s) == [s EXCEPT !.loadingNotice = @ + 1]

showImageLoadingNotice(s) ==
    IF s.loadingNotice > 0 THEN s ELSE [s EXCEPT !.loadingNotice = @ + 1]

\* getElementById finds the first such element; it is removed
clearImageLoadingNotice(s) ==
    IF s.loadingNotice > 0 THEN [s EXCEPT !.loadingNotice = @ - 1] ELSE s

\* -------------------------------------------------------- portrait loading
\* handlePortraitLoadAndDisplay with the synchronous part of loadPortraitImage:
\* spinner on, a new Image with its IMAGE_LOADING_MESSAGE_DELAY timer.
handlePortraitLoadAndDisplay(s) ==
    [s EXCEPT !.spinner = TRUE,
              !.imageLoads = Append(Stale(@), [cur |-> TRUE, timer |-> TRUE]),
              !.showTimers = Stale(@),
              !.history.load = "pending",
              !.history.last.load = TRUE]

\* displayLoadedPortrait that never calls its callback: no BUTTON_SHOW_DELAY
\* timer.  (A defective variant.)
displayLoadedPortraitNoCallback(s, cur) ==
    IF s.correctPerson = 0 THEN showImageLoadError(s)
    ELSE [s EXCEPT !.portraitImage = s.correctPerson]

\* displayLoadedPortrait: background set from the CURRENT correctPerson, then
\* the BUTTON_SHOW_DELAY timer; a missing correctPerson is reported instead.
displayLoadedPortrait(s, cur) ==
    IF s.correctPerson = 0 THEN showImageLoadError(s)
    ELSE [s EXCEPT !.portraitImage = s.correctPerson,
                   !.showTimers = Append(@, [cur |-> cur])]

\* img.onload of the i-th pending image
imgOnload(s, i) ==
    LET s1 == clearImageLoadingNotice([s EXCEPT !.imageLoads = RemoveAt(@, i)])
        s2 == [s1 EXCEPT !.spinner = FALSE,
                         !.history.load = IF s.imageLoads[i].cur THEN "loaded" ELSE @]
    IN  displayLoadedPortrait(s2, s.imageLoads[i].cur)

\* img.onerror of the i-th pending image
imgOnerror(s, i) ==
    showImageLoadError(
        [s EXCEPT !.imageLoads = RemoveAt(@, i),
                  !.history.imageErrors = @ + 1,
                  !.history.load = IF s.imageLoads[i].cur THEN "error" ELSE @])

\* ------------------------------------------------------------- game engine
\* resetGame without `usedPairs = new Set()`: the pairs of the finished game
\* stay used.  (A defective variant.)
resetGameKeepsPairs(s) ==
    LET s1 == [s EXCEPT !.score = [correct |-> 0, wrong |-> 0],
                        !.history.keys = {},
                        !.history.repeated = FALSE,
                        !.history.sessionAnswers = 0,
                        !.history.tieScreens = 0]
    IN  [clearNameButtons(clearOverlay(s1)) EXCEPT !.portraitImage = 0]

resetGame(s) ==
    LET s1 == [s EXCEPT !.score = [correct |-> 0, wrong |-> 0],
                        !.usedPairs = {},
                        !.history.keys = {},
                        !.history.repeated = FALSE,
                        !.history.sessionAnswers = 0,
                        !.history.tieScreens = 0]
    IN  [clearNameButtons(clearOverlay(s1)) EXCEPT !.portraitImage = 0]

\* checkGameEnd without its else-if branch: a lost game is not noticed.
\* (A defective variant.)
checkGameEndWonOnly(s, maxrounds) ==
    IF s.score.correct >= maxrounds
    THEN LET s1 == renderGameEndOverlay(s, TRUE)
             s2 == IF s1.score.wrong = 0 THEN showCleanStrikeScreen(s1) ELSE s1
         IN  attachPlayAgainButton(s2)
    ELSE s

\* checkGameEnd comparing with > instead of >=.  (A defective variant.)
checkGameEndLate(s, maxrounds) ==
    IF s.score.correct > maxrounds
    THEN LET s1 == renderGameEndOverlay(s, TRUE)
             s2 == IF s1.score.wrong = 0 THEN showCleanStrikeScreen(s1) ELSE s1
         IN  attachPlayAgainButton(s2)
    ELSE IF s.score.wrong > maxrounds
    THEN attachPlayAgainButton(renderGameEndOverlay(s, FALSE))
    ELSE s

checkGameEnd(s, maxrounds) ==
    IF s.score.correct >= maxrounds
    THEN LET s1 == renderGameEndOverlay(s, TRUE)
             s2 == IF s1.score.wrong = 0 THEN showCleanStrikeScreen(s1) ELSE s1
         IN  attachPlayAgainButton(s2)
    ELSE IF s.score.wrong >= maxrounds
    THEN attachPlayAgainButton(renderGameEndOverlay(s, FALSE))
    ELSE s

\* showPersonOverlay up to its await
showPersonOverlay(s) == fetchWikiExtract(createOverlayHTML(s))

\* selectedName === correctPerson.personLabel
isCorrectAnswer(ps, chosen, correct) == ps[chosen].personLabel = ps[correct].personLabel

\* score.wrong++ outside the else: a correct answer counts twice.
\* (A defective variant.)
recordAnswerNoElse(sc, wasCorrect) ==
    IF wasCorrect THEN [sc EXCEPT !.correct = @ + 1, !.wrong = @ + 1]
    ELSE [sc EXCEPT !.wrong = @ + 1]

\* score.correct++ or score.wrong++
recordAnswer(sc, wasCorrect) ==
    IF wasCorrect THEN [sc EXCEPT !.correct = @ + 1] ELSE [sc EXCEPT !.wrong = @ + 1]

\* handleRoundResult without clearNameButtons(): the buttons stay in the
\* document (and displayed) after the click.  (A defective variant.)
handleRoundResultKeepsButtons(s, b) ==
    LET wasCorrect == isCorrectAnswer(s.portraits, s.buttons[b], s.correctPerson)
        s1 == [s EXCEPT !.score = recordAnswer(@, wasCorrect),
                        !.history.last = [op |-> "eval", chosen |-> s.buttons[b],
                                          correct |-> s.correctPerson,
                                          incorrect |-> s.incorrectPerson,
                                          wasCorrect |-> wasCorrect],
                        !.history.answers = @ + 1,
                        !.history.sessionAnswers = @ + 1,
                        !.history.evals = @ + 1]
    IN  checkGameEnd(showPersonOverlay(s1), MAX_ROUNDS)

\* the click handler of name button b (1 or 2)
handleRoundResult(s, b) ==
    LET wasCorrect == isCorrectAnswer(s.portraits, s.buttons[b], s.correctPerson)
        s1 == [s EXCEPT !.score = recordAnswer(@, wasCorrect),
                        !.history.last = [op |-> "eval", chosen |-> s.buttons[b],
                                          correct |-> s.correctPerson,
                                          incorrect |-> s.incorrectPerson,
                                          wasCorrect |-> wasCorrect],
                        !.history.answers = @ + 1,
                        !.history.sessionAnswers = @ + 1,
                        !.history.evals = @ + 1]
    IN  checkGameEnd(showPersonOverlay(clearNameButtons(s1)), MAX_ROUNDS)

\* showNameButtons: the states it can leave, one per result of the selector
\* and per order of the two labels (sort with a random comparator).
\* showNameButtons without the random sort: the label of correctPerson is
\* always on the first button.  (A defective variant.)
showNameButtonsCorrectFirst(s) ==
    LET sel == selectValidPersonPair(s.portraits, s.usedPairs)
        tried(r) == [op |-> "round", usedBefore |-> s.usedPairs, pair |-> r.pair,
                     load |-> FALSE]
        shown(r, order) ==
            [createNameButtons(s, order) EXCEPT
                !.correctPerson = r.pair[1],
                !.incorrectPerson = r.pair[2],
                !.usedPairs = r.usedPairs,
                !.history.last = tried(r),
                !.history.evals = 0,
                !.history.keys = @ \cup {PairKey(s.portraits, r.pair)},
                !.history.repeated = @ \/ PairKey(s.portraits, r.pair) \in s.history.keys]
    IN  {[s EXCEPT !.history.last = tried(r)] : r \in {x \in sel : x.pair = NoPair}}
          \cup {shown(r, <<r.pair[1], r.pair[2]>>) : r \in {x \in sel : x.pair # NoPair}}

showNameButtons(s) ==
    LET sel == selectValidPersonPair(s.portraits, s.usedPairs)
        tried(r) == [op |-> "round", usedBefore |-> s.usedPairs, pair |-> r.pair,
                     load |-> FALSE]
        shown(r, order) ==
            [createNameButtons(s, order) EXCEPT
                !.correctPerson = r.pair[1],
                !.incorrectPerson = r.pair[2],
                !.usedPairs = r.usedPairs,
                !.history.last = tried(r),
                !.history.evals = 0,
                !.history.keys = @ \cup {PairKey(s.portraits, r.pair)},
                !.history.repeated = @ \/ PairKey(s.portraits, r.pair) \in s.history.keys]
    IN  {[s EXCEPT !.history.last = tried(r)] : r \in {x \in sel : x.pair = NoPair}}
          \cup {shown(r, <<r.pair[1], r.pair[2]>>) : r \in {x \in sel : x.pair # NoPair}}
          \cup {shown(r, <<r.pair[2], r.pair[1]>>) : r \in {x \in sel : x.pair # NoPair}}

\* loadNewRound with its continuation after `await showNameButtons()`: no other
\* handler runs in between.  correctPerson.imageurl throws while correctPerson
\* is null; the catch block only logs.
\* loadNewRound that sets the score to 0/0 before it selects the pair.
\* (A defective variant.)
loadNewRoundZeroesScore(s) ==
    IF Len(s.portraits) < 2 THEN {s}
    ELSE {IF t.correctPerson = 0 THEN [t EXCEPT !.history.load = "none"]
          ELSE handlePortraitLoadAndDisplay(t) :
            t \in showNameButtons(clearOverlay(
                     [s EXCEPT !.score = [correct |-> 0, wrong |-> 0]]))}

loadNewRound(s) ==
    IF Len(s.portraits) < 2 THEN {s}
    ELSE {IF t.correctPerson = 0 THEN [t EXCEPT !.history.load = "none"]
          ELSE handlePortraitLoadAndDisplay(t) :
            t \in showNameButtons(clearOverlay(s))}

advanceToNextStep(s, maxrounds) ==
    IF s.makeOrBreak > 0
    THEN loadNewRound([s EXCEPT !.makeOrBreak = @ - 1])
    ELSE IF s.cleanStrike > 0
    THEN loadNewRound([s EXCEPT !.cleanStrike = @ - 1])
    ELSE IF s.gameEnd # <<>>
    THEN loadNewRound(resetGame([s EXCEPT !.gameEnd = Tail(@)]))
    ELSE IF s.score.correct >= maxrounds \/ s.score.wrong >= maxrounds
    THEN {checkGameEnd(s, maxrounds)}
    ELSE IF s.score.correct = maxrounds - 1 /\ s.score.wrong = maxrounds - 1
    THEN {showMakeOrBreakScreen(s)}
    ELSE loadNewRound(s)

\* n listeners of one event call advanceToNextStep one after the other
RECURSIVE dispatchAdvance(_, _)
dispatchAdvance(ss, n) ==
    IF n = 0 THEN ss
    ELSE dispatchAdvance(UNION {advanceToNextStep(s, MAX_ROUNDS) : s \in ss}, n - 1)

\* addOverlayListeners: one more set of click/touch/keydown listeners
addOverlayListeners(s) ==
    IF s.overlay.exists THEN [s EXCEPT !.overlay.listeners = @ + 1] ELSE s

\* fetchWikiExtract without its catch callback: the rejection reaches the await
\* in showPersonOverlay, whose catch block only logs.  (A defective variant.)
fetchSettledNoCatch(s, i, text) ==
    IF text = "could-not-load"
    THEN [s EXCEPT !.fetches = RemoveAt(@, i)]
    ELSE [s EXCEPT !.overlay.extract = IF s.fetches[i].cur THEN text ELSE @,
                   !.fetches = RemoveAt(@, i),
                   !.lockTimers = Append(@, [cur |-> s.fetches[i].cur])]

\* fetchWikiExtract whose callbacks look #wiki-extract up when the response
\* arrives, instead of using the element found when the request was sent.
\* (A defective variant.)
fetchSettledLateLookup(s, i, text) ==
    [s EXCEPT !.overlay.extract = IF s.overlay.exists THEN text ELSE @,
              !.fetches = RemoveAt(@, i),
              !.lockTimers = Append(@, [cur |-> s.fetches[i].cur])]

\* the two then-callbacks and the catch of fetchWikiExtract, followed by the
\* rest of showPersonOverlay: the NEXT_ROUND_LOCK timer.  extractElement is
\* the #wiki-extract found when the request was sent: it is in the document
\* only while the overlay of that request is (cur).
fetchSettled(s, i, text) ==
    [s EXCEPT !.overlay.extract = IF s.fetches[i].cur THEN text ELSE @,
              !.fetches = RemoveAt(@, i),
              !.lockTimers = Append(@, [cur |-> s.fetches[i].cur])]

\* ----------------------------------------------------------------- actions
\* fetchPortraits after the CSV has arrived
FetchPortraits ==
    /\ portraits = <<>>
    /\ \E d \in Datasets : \E t \in loadNewRound([St EXCEPT !.portraits = d]) :
          Commit(t)

\* fetchPortraits after the CSV of DataPairs has arrived
FetchPortraitsPairs ==
    /\ portraits = <<>>
    /\ \E t \in loadNewRound([St EXCEPT !.portraits = DataPairs]) : Commit(t)

\* fetchPortraits after the CSV of DataBarIds has arrived
FetchPortraitsBarIds ==
    /\ portraits = <<>>
    /\ \E t \in loadNewRound([St EXCEPT !.portraits = DataBarIds]) : Commit(t)

\* a click on name button b: the buttons are displayed and no full-screen
\* make-or-break layer lies over them
ClickName ==
    /\ history.answers < history.budget
    /\ buttons # <<>>
    /\ nameOptionsDisplay # "none"
    /\ makeOrBreak = 0
    /\ \E b \in 1..2 : Do(handleRoundResult(St, b))

ImageLoaded ==
    /\ ~history.ended
    /\ \E i \in 1..Len(imageLoads) : Do(imgOnload(St, i))

ImageFailed ==
    /\ ~history.ended
    /\ history.imageErrors < MaxImageErrors
    /\ \E i \in 1..Len(imageLoads) : Do(imgOnerror(St, i))

\* the IMAGE_LOADING_MESSAGE_DELAY timer of a pending image
LoadingNoticeTimer ==
    /\ ~history.ended
    /\ \E i \in 1..Len(imageLoads) :
          /\ imageLoads[i].timer
          /\ Do(showImageLoadingNotice([St EXCEPT !.imageLoads[i].timer = FALSE]))

\* the IMAGE_ERROR_DISPLAY_DURATION timer of an error message
LoadErrorExpires ==
    /\ ~history.ended
    /\ loadErrors > 0
    /\ Do([St EXCEPT !.loadErrors = @ - 1])

\* the BUTTON_SHOW_DELAY timer set by displayLoadedPortrait
ShowButtonsTimer ==
    /\ ~history.ended
    /\ showTimers # <<>>
    /\ Do([St EXCEPT !.showTimers = Tail(@), !.nameOptionsDisplay = "flex"])

\* a response with JSON in it: its extract, or the no-intro text, is shown
SummaryArrives ==
    /\ ~history.ended
    /\ \E i \in 1..Len(fetches) : Do(fetchSettled(St, i, "summary"))

\* network error or a body that is not JSON: the catch callback
SummaryFails ==
    /\ ~history.ended
    /\ \E i \in 1..Len(fetches) : Do(fetchSettled(St, i, "could-not-load"))

\* the NEXT_ROUND_LOCK timer set by showPersonOverlay; overlay.unlocked notes
\* that the timer started for the overlay now in the document has fired
LockTimer ==
    /\ ~history.ended
    /\ lockTimers # <<>>
    /\ Do(addOverlayListeners([St EXCEPT !.lockTimers = Tail(@),
                                         !.overlay.unlocked = @ \/ lockTimers[1].cur]))

\* click or swipe on #overlay (needs pointer events and nothing above it), or
\* Space/Enter while it has the focus: the event reaches every attached set of
\* listeners, and each of them calls advanceToNextStep
OverlayGesture ==
    /\ history.answers < history.budget
    /\ overlay.exists
    /\ overlay.listeners > 0
    /\ \E key \in BOOLEAN : key \/ (overlay.pointerEvents = "auto" /\ makeOrBreak = 0)
    /\ \E t \in dispatchAdvance({St}, overlay.listeners) : Commit(t)

\* the same gesture on the result overlay of the last answer
OverlayGestureAfterLastAnswer ==
    /\ ~history.ended
    /\ history.answers = history.budget
    /\ overlay.exists
    /\ overlay.listeners > 0
    /\ \E key \in BOOLEAN : key \/ (overlay.pointerEvents = "auto" /\ makeOrBreak = 0)
    /\ \E t \in dispatchAdvance({St}, overlay.listeners) :
          Commit([t EXCEPT !.history.ended = TRUE])

\* click, touch or Space/Enter on the make-or-break screen
MakeOrBreakGesture ==
    /\ history.answers < history.budget
    /\ makeOrBreak > 0
    /\ \E t \in advanceToNextStep(St, MAX_ROUNDS) : Commit(t)

\* click, touch or Space/Enter on the clean-strike screen
CleanStrikeGesture ==
    /\ history.answers < history.budget
    /\ cleanStrike > 0
    /\ \E t \in advanceToNextStep(St, MAX_ROUNDS) : Commit(t)

\* the click listener of a Play Again button of the i-th game-end overlay
PlayAgain ==
    /\ history.answers < history.budget
    /\ \E i \in 1..Len(gameEnd) :
          /\ gameEnd[i].buttons > 0
          /\ \E t \in loadNewRound(resetGame([St EXCEPT !.gameEnd = RemoveAt(@, i)])) :
                Commit(t)

Next ==
    \/ FetchPortraits
    \/ ClickName
    \/ ImageLoaded
    \/ ImageFailed
    \/ LoadingNoticeTimer
    \/ LoadErrorExpires
    \/ ShowButtonsTimer
    \/ SummaryArrives
    \/ SummaryFails
    \/ LockTimer
    \/ OverlayGesture
    \/ MakeOrBreakGesture
    \/ CleanStrikeGesture
    \/ PlayAgain

Spec == Init /\ [][Next]_vars

\* The game in which every portrait loads, every summary fetch settles and
\* every timer fires: the browser delivers the load event of a pending image,
\* the result of a pending fetch and a timer that is due; what the player
\* does, and when, is left open.
NextLive ==
    \/ FetchPortraits
    \/ ClickName
    \/ ImageLoaded
    \/ LoadingNoticeTimer
    \/ ShowButtonsTimer
    \/ SummaryArrives
    \/ SummaryFails
    \/ LockTimer
    \/ OverlayGesture
    \/ MakeOrBreakGesture
    \/ CleanStrikeGesture
    \/ PlayAgain

SpecLive ==
    /\ Init
    /\ [][NextLive]_vars
    /\ WF_vars(FetchPortraits)
    /\ WF_vars(ImageLoaded)
    /\ WF_vars(ShowButtonsTimer)
    /\ WF_vars(SummaryArrives \/ SummaryFails)
    /\ WF_vars(LockTimer)

\* the listeners that call advanceToNextStep can be reached: those of the
\* result overlay (attached by addOverlayListeners), of the make-or-break
\* screen or of the clean-strike screen
AdvanceEnabled ==
    \/ overlay.exists /\ overlay.listeners > 0
    \/ makeOrBreak > 0
    \/ cleanStrike > 0

\* a game-end overlay in the document has a Play Again button
PlayAgainEnabled == \E i \in 1..Len(gameEnd) : gameEnd[i].buttons > 0

NextLastGesture ==
    \/ Next
    \/ OverlayGestureAfterLastAnswer

SpecLastGesture == Init /\ [][NextLastGesture]_vars

NextLongGame ==
    \/ FetchPortraitsPairs
    \/ ClickName
    \/ ImageLoaded
    \/ ImageFailed
    \/ LoadingNoticeTimer
    \/ LoadErrorExpires
    \/ ShowButtonsTimer
    \/ SummaryArrives
    \/ SummaryFails
    \/ LockTimer
    \/ OverlayGesture
    \/ OverlayGestureAfterLastAnswer
    \/ MakeOrBreakGesture
    \/ CleanStrikeGesture
    \/ PlayAgain

SpecLongGame == InitLongGame /\ [][NextLongGame]_vars

\* the game played on DataBarIds
NextBarIds ==
    \/ FetchPortraitsBarIds
    \/ ClickName
    \/ ImageLoaded
    \/ ImageFailed
    \/ LoadingNoticeTimer
    \/ LoadErrorExpires
    \/ ShowButtonsTimer
    \/ SummaryArrives
    \/ SummaryFails
    \/ LockTimer
    \/ OverlayGesture
    \/ MakeOrBreakGesture
    \/ CleanStrikeGesture
    \/ PlayAgain

SpecBarIds == Init /\ [][NextBarIds]_vars

\* portraits = parseCSV(text)
ParseResponse ==
    /\ ~csv.parsed
    /\ csv' = [csv EXCEPT !.parsed = TRUE, !.result = parseCSV(csv.text)]
    /\ portraits' = csv'.result
    /\ UNCHANGED run
    /\ UNCHANGED <<correctPerson, incorrectPerson, score, usedPairs, buttons,
                   nameOptionsDisplay, overlay, makeOrBreak, cleanStrike, gameEnd,
                   spinner, loadingNotice, loadErrors, portraitImage, imageLoads,
                   showTimers, fetches, lockTimers, history>>

NextParse == ParseResponse

SpecParse == InitParse /\ [][NextParse]_vars

\* ------------------------------------------- the selector, loop by loop
\* the variables the selector functions do not touch
notSelector == <<correctPerson, incorrectPerson, score, buttons,
                 nameOptionsDisplay, overlay, makeOrBreak, cleanStrike, gameEnd,
                 spinner, loadingNotice, loadErrors, portraitImage, imageLoads,
                 showTimers, fetches, lockTimers, history, csv>>

\* the keys of all pairs of different records of one name group
AllPairKeys(ps) ==
    {PairKey(ps, q) : q \in {r \in (1..Len(ps)) \X (1..Len(ps)) :
                                r[1] # r[2] /\ ps[r[1]].namekey = ps[r[2]].namekey}}

\* selectValidPersonPair is about to be called, for a dataset and a usedPairs
\* that holds any of the dataset's pair keys
InitSelector ==
    /\ portraits \in Datasets
    /\ usedPairs \in SUBSET AllPairKeys(portraits)
    /\ run = NoSel
    /\ csv = NoCsv
    /\ correctPerson = 0
    /\ incorrectPerson = 0
    /\ score = [correct |-> 0, wrong |-> 0]
    /\ buttons = <<>>
    /\ nameOptionsDisplay = ""
    /\ overlay = NoOverlay
    /\ makeOrBreak = 0
    /\ cleanStrike = 0
    /\ gameEnd = <<>>
    /\ spinner = FALSE
    /\ loadingNotice = 0
    /\ loadErrors = 0
    /\ portraitImage = 0
    /\ imageLoads = <<>>
    /\ showTimers = <<>>
    /\ fetches = <<>>
    /\ lockTimers = <<>>
    /\ history = NoHistory

\* selectValidPersonPair: uniqueNameKeys, attempts = 0
SelectorCalled ==
    /\ run.pc = "idle"
    /\ run' = [run EXCEPT !.pc = "pick"]
    /\ UNCHANGED <<portraits, usedPairs>>
    /\ UNCHANGED notSelector

\* one test of `attempts < 100`: the loop is left with [], or a name key is
\* picked and its group either is passed to selectUniquePairFrom
\* (attempts = 0 there) or is too small (attempts++); without name keys
\* candidateKey is undefined and the group is empty
PickNameGroup ==
    /\ run.pc = "pick"
    /\ IF run.picks >= maxGroupPicks
       THEN run' = [run EXCEPT !.pc = "done", !.result = NoPair]
       ELSE IF UniqueNameKeys(portraits) = {}
       THEN run' = [run EXCEPT !.picks = @ + 1]
       ELSE \E nk \in UniqueNameKeys(portraits) :
               LET group == NameGroup(portraits, nk)
               IN  run' = IF Len(group) >= 2
                          THEN [run EXCEPT !.pc = "first", !.group = group,
                                           !.draws = 0, !.fresh = FALSE]
                          ELSE [run EXCEPT !.picks = @ + 1]
    /\ UNCHANGED <<portraits, usedPairs>>
    /\ UNCHANGED notSelector

\* getTwoDistinctPeople: firstIndex
DrawFirstIndex ==
    /\ run.pc = "first"
    /\ \E i \in 1..Len(run.group) : run' = [run EXCEPT !.pc = "second", !.first = i]
    /\ UNCHANGED <<portraits, usedPairs>>
    /\ UNCHANGED notSelector

\* What follows a pair draw <<a, b>> in selectUniquePairFrom and, when it
\* returns, in selectValidPersonPair; count says whether attempts++ is done.
afterDraw(a, b, count) ==
    LET key == PairKey(portraits, <<a, b>>)
        n == IF count THEN run.draws + 1 ELSE run.draws
        fresh == run.fresh \/ key \notin usedPairs
    IN  IF key \in usedPairs /\ n < maxAttempts
        THEN /\ run' = [run EXCEPT !.pc = "first", !.draws = n, !.fresh = fresh]
             /\ UNCHANGED usedPairs
        ELSE IF n >= maxAttempts
        THEN /\ run' = [run EXCEPT !.pc = "pick", !.draws = n, !.picks = @ + 1,
                                   !.fresh = fresh, !.missed = @ \/ fresh]
             /\ UNCHANGED usedPairs
        ELSE /\ run' = [run EXCEPT !.pc = "done", !.draws = n, !.fresh = fresh,
                                   !.result = <<a, b>>]
             /\ usedPairs' = usedPairs \cup {key}

\* DrawSecondIndex without `attempts++`.  (A defective variant.)
DrawSecondIndexNoCount ==
    /\ run.pc = "second"
    /\ \E j \in 1..Len(run.group) :
          IF j = run.first THEN UNCHANGED <<run, usedPairs>>
          ELSE afterDraw(run.group[run.first], run.group[j], FALSE)
    /\ UNCHANGED portraits
    /\ UNCHANGED notSelector

\* getTwoDistinctPeople: one secondIndex.  If it is firstIndex the do-while
\* repeats (nothing has changed); otherwise the pair is returned to
\* selectUniquePairFrom: pairKey, attempts++, the loop test, the
\* `attempts >= maxAttempts` test, usedPairs.add.
DrawSecondIndex ==
    /\ run.pc = "second"
    /\ \E j \in 1..Len(run.group) :
          IF j = run.first THEN UNCHANGED <<run, usedPairs>>
          ELSE afterDraw(run.group[run.first], run.group[j], TRUE)
    /\ UNCHANGED portraits
    /\ UNCHANGED notSelector

NextSelector ==
    \/ SelectorCalled
    \/ PickNameGroup
    \/ DrawFirstIndex
    \/ DrawSecondIndex

\* The code runs on until it returns, and Math.random() does not return the
\* index it returned before for ever (a step is a change of state).
SpecSelector == InitSelector /\ [][NextSelector]_vars /\ WF_vars(NextSelector)

\* ----------------------------- the earlier single-file version (lines 1-959)
\* Its records name the id `depicts`, the label `name` and the picture
\* `image`; they are modelled by person, personLabel and the record itself.
\* Its resetGame leaves usedPairs, and nothing resets correctPerson.

\* showNameButtonsWithTimeout: the states it can leave.  Its while loop is the
\* loop of selectValidPersonPair with `[correctPerson, incorrectPerson] =
\* testPair; break` in the place of the return.  After the loop it tests the
\* module variables, not the outcome of the loop: when no pair was found and
\* they still hold the pair of an earlier round, buttons are created for that
\* pair; when they are null it calls itself, until a call finds a pair or the
\* call stack is exhausted (the catch block resolves with []).
showNameButtonsWithTimeout(s) ==
    LET found == {x \in selectValidPersonPair(s.portraits, s.usedPairs) : x.pair # NoPair}
        none == {x \in selectValidPersonPair(s.portraits, s.usedPairs) : x.pair = NoPair}
        tried(pr) == [op |-> "round", usedBefore |-> s.usedPairs, pair |-> pr,
                      load |-> FALSE]
        shown(r, order) ==
            [createNameButtons(s, order) EXCEPT
                !.correctPerson = r.pair[1],
                !.incorrectPerson = r.pair[2],
                !.usedPairs = r.usedPairs,
                !.history.evals = 0,
                !.history.last = tried(r.pair)]
        old(order) == [createNameButtons(s, order) EXCEPT !.history.evals = 0,
                                                          !.history.last = tried(NoPair)]
    IN  {shown(r, <<r.pair[1], r.pair[2]>>) : r \in found}
          \cup {shown(r, <<r.pair[2], r.pair[1]>>) : r \in found}
          \cup (IF none = {} THEN {}
                ELSE IF s.correctPerson # 0 /\ s.incorrectPerson # 0
                THEN {old(<<s.correctPerson, s.incorrectPerson>>),
                      old(<<s.incorrectPerson, s.correctPerson>>)}
                ELSE {[s EXCEPT !.history.last = tried(NoPair)]})

\* loadNewRound of the earlier version, up to the portrait load
loadNewRoundEarlier(s) ==
    IF Len(s.portraits) < 2 THEN {s}
    ELSE showNameButtonsWithTimeout(clearOverlay(s))

\* handleRoundResult of the earlier version, up to clearNameButtons
handleRoundResultEarlier(s, b) ==
    LET wasCorrect == isCorrectAnswer(s.portraits, s.buttons[b], s.correctPerson)
    IN  clearNameButtons(
            [s EXCEPT !.score = recordAnswer(@, wasCorrect),
                      !.history.last = [op |-> "eval", chosen |-> s.buttons[b],
                                        correct |-> s.correctPerson,
                                        incorrect |-> s.incorrectPerson,
                                        wasCorrect |-> wasCorrect],
                      !.history.answers = @ + 1,
                      !.history.sessionAnswers = @ + 1,
                      !.history.evals = @ + 1])

\* fetchPortraits of the earlier version
FetchPortraitsEarlier ==
    /\ portraits = <<>>
    /\ \E d \in Datasets \cup {DataBarIds} :
          \E t \in loadNewRoundEarlier([St EXCEPT !.portraits = d]) : Commit(t)

\* a click on name button b
ClickNameEarlier ==
    /\ history.answers < history.budget
    /\ buttons # <<>>
    /\ \E b \in 1..2 : Do(handleRoundResultEarlier(St, b))

\* advanceToNextStep (or Play Again) reaches loadNewRound after an answer
NextRoundEarlier ==
    /\ portraits # <<>>
    /\ buttons = <<>>
    /\ history.last.op = "eval"
    /\ \E t \in loadNewRoundEarlier(St) : Commit(t)

NextEarlier ==
    \/ FetchPortraitsEarlier
    \/ ClickNameEarlier
    \/ NextRoundEarlier

SpecEarlier == Init /\ [][NextEarlier]_vars

\* ------------------------------ showNameButtons and its notice timer
\* One call of showNameButtons followed step by step: the selector loops of
\* above run between setTimeout(showNameSelectionNotice, delay) and
\* clearTimeout(timeoutId).  timer: the timeout is pending; notice: the
\* number of #name-selection-notice elements.
NoShow == [pc |-> "idle", picks |-> 0, draws |-> 0, group |-> <<>>, first |-> 0,
           fresh |-> FALSE, missed |-> FALSE, result |-> NoPair,
           timer |-> FALSE, notice |-> 0]

\* loadNewRound is about to call showNameButtons
InitShowButtons ==
    /\ portraits \in Datasets
    /\ usedPairs \in SUBSET AllPairKeys(portraits)
    /\ run = NoShow
    /\ csv = NoCsv
    /\ correctPerson = 0
    /\ incorrectPerson = 0
    /\ score = [correct |-> 0, wrong |-> 0]
    /\ buttons = <<>>
    /\ nameOptionsDisplay = ""
    /\ overlay = NoOverlay
    /\ makeOrBreak = 0
    /\ cleanStrike = 0
    /\ gameEnd = <<>>
    /\ spinner = FALSE
    /\ loadingNotice = 0
    /\ loadErrors = 0
    /\ portraitImage = 0
    /\ imageLoads = <<>>
    /\ showTimers = <<>>
    /\ fetches = <<>>
    /\ lockTimers = <<>>
    /\ history = NoHistory

\* showNameButtons: setTimeout, then selectValidPersonPair is entered
ShowNameButtonsCalled ==
    /\ run.pc = "idle"
    /\ run' = [run EXCEPT !.pc = "pick", !.timer = TRUE]
    /\ UNCHANGED <<portraits, usedPairs>>
    /\ UNCHANGED notSelector

\* selectValidPersonPair has returned: on either path clearTimeout and
\* clearNameSelectionNotice; with a pair, the module variables and the buttons
ShowNameButtonsReturns ==
    /\ run.pc = "done"
    /\ run' = [run EXCEPT !.pc = "returned", !.timer = FALSE, !.notice = 0]
    /\ IF run.result = NoPair
       THEN UNCHANGED <<correctPerson, incorrectPerson, buttons>>
       ELSE /\ correctPerson' = run.result[1]
            /\ incorrectPerson' = run.result[2]
            /\ \E order \in {run.result, <<run.result[2], run.result[1]>>} :
                  buttons' = order
    /\ UNCHANGED <<portraits, usedPairs, score, nameOptionsDisplay, overlay,
                   makeOrBreak, cleanStrike, gameEnd, spinner, loadingNotice,
                   loadErrors, portraitImage, imageLoads, showTimers, fetches,
                   lockTimers, history, csv>>

\* A timer callback is run by the event loop, which takes the next task only
\* when the running handler has returned: the call of showNameButtons is
\* not on the stack.
NameSelectionTimerCanFire == run.timer /\ run.pc \in {"idle", "returned"}

NextShowButtons ==
    \/ ShowNameButtonsCalled
    \/ PickNameGroup
    \/ DrawFirstIndex
    \/ DrawSecondIndex
    \/ ShowNameButtonsReturns

SpecShowButtons == InitShowButtons /\ [][NextShowButtons]_vars

\* ------------------- the variant that tracks usedNameKeys (src/unnamed/part_000)
\* prepareNameButtonsWithTimeout with selectUniquePairFrom and
\* getTwoDistinctPeople, followed loop by loop in `run`.  Nothing in this
\* variant removes a name key from usedNameKeys or a key from usedPairs.
NoPrepare == [pc |-> "idle", usedNameKeys |-> {}, group |-> <<>>, first |-> 0,
              result |-> NoPair]

notPrepare == <<score, buttons, nameOptionsDisplay, overlay, makeOrBreak,
                cleanStrike, gameEnd, spinner, loadingNotice, loadErrors,
                portraitImage, imageLoads, showTimers, fetches, lockTimers,
                history, csv>>

\* the page after fetchPortraits has parsed the data file
InitPrepare ==
    /\ portraits \in Datasets \cup {DataBarIds}
    /\ usedPairs = {}
    /\ run = NoPrepare
    /\ csv = NoCsv
    /\ correctPerson = 0
    /\ incorrectPerson = 0
    /\ score = [correct |-> 0, wrong |-> 0]
    /\ buttons = <<>>
    /\ nameOptionsDisplay = ""
    /\ overlay = NoOverlay
    /\ makeOrBreak = 0
    /\ cleanStrike = 0
    /\ gameEnd = <<>>
    /\ spinner = FALSE
    /\ loadingNotice = 0
    /\ loadErrors = 0
    /\ portraitImage = 0
    /\ imageLoads = <<>>
    /\ showTimers = <<>>
    /\ fetches = <<>>
    /\ lockTimers = <<>>
    /\ history = NoHistory

\* loadNewRound (first round, or the next round after an answer) calls
\* prepareNameButtonsWithTimeout
PrepareCalled ==
    /\ run.pc \in {"idle", "done"}
    /\ Len(portraits) >= 2
    /\ run' = [run EXCEPT !.pc = "key", !.result = NoPair]
    /\ UNCHANGED <<portraits, usedPairs, correctPerson, incorrectPerson>>
    /\ UNCHANGED notPrepare

\* one turn of `do { selectedNameKey = ... } while (usedNameKeys.has(...))`:
\* a used key repeats the loop; an unused key is added and its group is
\* passed on, or, when it has fewer than two records, the function calls
\* itself (the loop starts again)
PickNameKey ==
    /\ run.pc = "key"
    /\ \E nk \in UniqueNameKeys(portraits) :
          IF nk \in run.usedNameKeys THEN UNCHANGED run
          ELSE LET group == NameGroup(portraits, nk)
               IN  run' = IF Len(group) < 2
                          THEN [run EXCEPT !.usedNameKeys = @ \cup {nk}]
                          ELSE [run EXCEPT !.usedNameKeys = @ \cup {nk},
                                           !.pc = "first", !.group = group]
    /\ UNCHANGED <<portraits, usedPairs, correctPerson, incorrectPerson>>
    /\ UNCHANGED notPrepare

\* getTwoDistinctPeople of the variant: firstIndex
PrepareDrawFirst ==
    /\ run.pc = "first"
    /\ \E i \in 1..Len(run.group) : run' = [run EXCEPT !.pc = "second", !.first = i]
    /\ UNCHANGED <<portraits, usedPairs, correctPerson, incorrectPerson>>
    /\ UNCHANGED notPrepare

\* getTwoDistinctPeople of the variant: one secondIndex; then, in
\* selectUniquePairFrom, pairKey and `while (usedPairs.has(pairKey))`: a used
\* key draws again, an unused key is added and the pair becomes
\* [correctPerson, incorrectPerson]
PrepareDrawSecond ==
    /\ run.pc = "second"
    /\ \E j \in 1..Len(run.group) :
          LET a == run.group[run.first]
              b == run.group[j]
              key == PairKey(portraits, <<a, b>>)
          IN  IF j = run.first
              THEN UNCHANGED <<run, usedPairs, correctPerson, incorrectPerson>>
              ELSE IF key \in usedPairs
              THEN /\ run' = [run EXCEPT !.pc = "first"]
                   /\ UNCHANGED <<usedPairs, correctPerson, incorrectPerson>>
              ELSE /\ run' = [run EXCEPT !.pc = "done", !.result = <<a, b>>]
                   /\ usedPairs' = usedPairs \cup {key}
                   /\ correctPerson' = a
                   /\ incorrectPerson' = b
    /\ UNCHANGED portraits
    /\ UNCHANGED notPrepare

NextPrepare ==
    \/ PrepareCalled
    \/ PickNameKey
    \/ PrepareDrawFirst
    \/ PrepareDrawSecond

SpecPrepare == InitPrepare /\ [][NextPrepare]_vars /\ WF_vars(NextPrepare)

TypeOK ==
    /\ score.correct \in Nat /\ score.wrong \in Nat
    /\ correctPerson \in 0..Len(portraits)
    /\ Len(buttons) \in {0, 2}

\* ------------------------------------------------------------------ claims
\* C1: within one session (from the start or the last resetGame to the next
\* resetGame) no two rounds for which name buttons were created have the same
\* PairKey; every key shown is recorded in usedPairs.
C1_UniquePairKeys == ~history.repeated /\ history.keys \subseteq usedPairs

\* a session in which three rounds with name buttons took place
C1_ThreeRoundsInSession == Cardinality(history.keys) >= 3

\* C2: the two candidates of every pair the selector returns have different
\* ids (person), whatever the dataset.
C2_DistinctIds ==
    (history.last.op = "round" /\ history.last.pair # NoPair) =>
        portraits[history.last.pair[1]].person # portraits[history.last.pair[2]].person

\* C3: an answer is evaluated as correct exactly when the id of the chosen
\* candidate is the id of correctPerson, also when the two labels are equal.
C3_CorrectById ==
    history.last.op = "eval" =>
        (history.last.wasCorrect <=>
            portraits[history.last.chosen].person = portraits[history.last.correct].person)

\* C4: an answer evaluation adds exactly 1 to exactly one of score.correct and
\* score.wrong; any other change of the score is a reset to 0/0, so neither
\* counter decreases between two resets.
C4_ScoreSteps ==
    [][ /\ history.answers' # history.answers =>
              \/ score'.correct = score.correct + 1 /\ score'.wrong = score.wrong
              \/ score'.wrong = score.wrong + 1 /\ score'.correct = score.correct
        /\ (history.answers' = history.answers /\ score' # score) =>
              (score' = [correct |-> 0, wrong |-> 0] /\ history'.sessionAnswers = 0)
      ]_vars

\* an evaluation after which both counters have been increased once
C4_BothCountersMoved ==
    history.last.op = "eval" /\ score.correct = 1 /\ score.wrong = 1

\* C5: the step of an answer evaluation that brings score.correct or
\* score.wrong to MAX_ROUNDS renders one game-end overlay, with won exactly
\* when score.correct has reached MAX_ROUNDS; the step of an evaluation that
\* leaves both below MAX_ROUNDS renders none.
C5_GameEndOnEvaluation ==
    [][ history.answers' # history.answers =>
            IF score'.correct >= MAX_ROUNDS \/ score'.wrong >= MAX_ROUNDS
            THEN /\ Len(gameEnd') = Len(gameEnd) + 1
                 /\ \A i \in 1..Len(gameEnd) : gameEnd'[i].won = gameEnd[i].won
                 /\ gameEnd'[Len(gameEnd')].won = (score'.correct >= MAX_ROUNDS)
            ELSE gameEnd' = gameEnd
      ]_vars

\* the evaluation of the answer that loses the game has just run
C5_LostGameEntered ==
    /\ history.last.op = "eval"
    /\ score.wrong = MAX_ROUNDS
    /\ gameEnd # <<>>
    /\ ~gameEnd[Len(gameEnd)].won

\* C6: once a counter has reached MAX_ROUNDS (the game has ended), no answer
\* is evaluated and no round with a new pair is started, except by a step
\* that has returned the score to 0/0.
C6_GameEndTerminal ==
    [][ (score.correct >= MAX_ROUNDS \/ score.wrong >= MAX_ROUNDS) =>
            /\ history'.answers = history.answers
            /\ (history'.last.op = "round" /\ history'.last.pair # NoPair) =>
                  score' = [correct |-> 0, wrong |-> 0]
      ]_vars

\* C7: counted from score 0/0, the evaluation that renders the first game-end
\* overlay is the MAX_ROUNDS-th at the earliest and the (2 * MAX_ROUNDS - 1)-th
\* at the latest: an evaluation that starts with both counters below
\* MAX_ROUNDS and ends the game is one of these, and one that does not end the
\* game is an earlier one.
C7_FirstGameEnd ==
    [][ (/\ history.answers' # history.answers
         /\ score.correct < MAX_ROUNDS
         /\ score.wrong < MAX_ROUNDS) =>
            IF Len(gameEnd') > Len(gameEnd)
            THEN history'.sessionAnswers \in MAX_ROUNDS..(2 * MAX_ROUNDS - 1)
            ELSE history'.sessionAnswers < 2 * MAX_ROUNDS - 1
      ]_vars

\* a game that ended with the last answer the worst case allows
C7_EndedAtWorstCase ==
    /\ history.last.op = "eval"
    /\ gameEnd # <<>>
    /\ history.sessionAnswers = 2 * MAX_ROUNDS - 1
    /\ score.correct + score.wrong = 2 * MAX_ROUNDS - 1

\* C8: a call of the selector returns (the selector always has a result);
\* a pair it returns is two different records of one name group whose key was
\* not in usedPairs; and when the keys of all pairs of the name groups are in
\* usedPairs it returns the empty result.
C8_ExhaustionReported ==
    /\ Len(portraits) >= 2 => selectValidPersonPair(portraits, usedPairs) # {}
    /\ history.last.op = "round" =>
          LET ps == portraits
              pr == history.last.pair
              before == history.last.usedBefore
              pairs == {q \in (1..Len(ps)) \X (1..Len(ps)) :
                           q[1] # q[2] /\ ps[q[1]].namekey = ps[q[2]].namekey}
          IN  /\ pr # NoPair => (pr \in pairs /\ PairKey(ps, pr) \notin before)
              /\ {PairKey(ps, q) : q \in pairs} \subseteq before => pr = NoPair

\* the selector was called after both pairs of a dataset with exactly two
\* unique pairs had been selected, and reported that there is none
C8_NoneAfterTwoOfTwo ==
    /\ history.last.op = "round"
    /\ history.last.pair = NoPair
    /\ Cardinality(history.last.usedBefore) = 2
    /\ LET ps == portraits
           pairs == {q \in (1..Len(ps)) \X (1..Len(ps)) :
                        q[1] # q[2] /\ ps[q[1]].namekey = ps[q[2]].namekey}
       IN  {PairKey(ps, q) : q \in pairs} = history.last.usedBefore

\* C9: a loadNewRound whose selector call reported no pair does not go on to
\* load a portrait.
C9_NoLoadAfterExhaustion ==
    (history.last.op = "round" /\ history.last.pair = NoPair) => ~history.last.load

\* C10: when the portrait of the round on screen has failed to load and no
\* image event or show timer is outstanding, the name buttons are displayed.
C10_ButtonsAfterLoadError ==
    (/\ history.load = "error"
     /\ buttons # <<>>
     /\ imageLoads = <<>>
     /\ showTimers = <<>>) => nameOptionsDisplay # "none"

\* C11: the name buttons are visible only when the portrait load of the round
\* on screen (started after its pair was selected) has completed and its
\* button-show delay has elapsed: never while that load or delay is pending.
C11_ButtonsAfterPortrait ==
    (buttons # <<>> /\ nameOptionsDisplay # "none") =>
        /\ history.load = "loaded"
        /\ \A i \in 1..Len(imageLoads) : ~imageLoads[i].cur
        /\ \A i \in 1..Len(showTimers) : ~showTimers[i].cur

\* C12: while the result overlay of an evaluated answer is in the document
\* and the lock timer started for it has not fired, no click, swipe or
\* Space/Enter on the overlay starts a round or opens the make-or-break screen.
C12_NoAdvanceDuringLock ==
    [][ (overlay.exists /\ ~overlay.unlocked) =>
            ~(/\ OverlayGesture \/ OverlayGestureAfterLastAnswer
              /\ (history'.last.op = "round" \/ makeOrBreak' > makeOrBreak))
      ]_vars

C14_MakeOrBreakBlocks ==
    [][ (/\ score = [correct |-> MAX_ROUNDS - 1, wrong |-> MAX_ROUNDS - 1]
         /\ score' = score) =>
            /\ history'.last.op = "round" => makeOrBreak > 0
            /\ ((OverlayGesture \/ OverlayGestureAfterLastAnswer) /\ makeOrBreak = 0) =>
                  (makeOrBreak' = 1 /\ history'.last.op # "round")
            /\ makeOrBreak' < makeOrBreak =>
                  \/ MakeOrBreakGesture
                  \/ OverlayGesture
                  \/ OverlayGestureAfterLastAnswer
                  \/ CleanStrikeGesture
                  \/ PlayAgain
      ]_vars

\* C15: every pair selectValidPersonPair can return, and every pair it did
\* return, is two different records of the dataset with the same namekey, both
\* members of a name group of at least two records; a record whose namekey no
\* other record has is never a candidate of a round.
C15_PairFromOneNameGroup ==
    LET ps == portraits
        sameGroup(pr) ==
            /\ pr[1] \in 1..Len(ps) /\ pr[2] \in 1..Len(ps)
            /\ pr[1] # pr[2]
            /\ ps[pr[1]].namekey = ps[pr[2]].namekey
            /\ Len(FilterIdx(ps, ps[pr[1]].namekey, 1)) >= 2
        lonely(i) == Len(FilterIdx(ps, ps[i].namekey, 1)) = 1
    IN  /\ \A r \in selectValidPersonPair(ps, usedPairs) :
              r.pair # NoPair => sameGroup(r.pair)
        /\ (history.last.op = "round" /\ history.last.pair # NoPair) =>
              sameGroup(history.last.pair)
        /\ correctPerson # 0 => ~lonely(correctPerson)
        /\ incorrectPerson # 0 => ~lonely(incorrectPerson)
        /\ \A b \in 1..Len(buttons) : ~lonely(buttons[b])

\* a pair was returned from a dataset in which one namekey has a single record
C15_PairBesideSingleRecord ==
    /\ history.last.op = "round"
    /\ history.last.pair # NoPair
    /\ \E i \in 1..Len(portraits) : Len(FilterIdx(portraits, portraits[i].namekey, 1)) = 1

\* C16: with the dataset A1/alex, A2/alex, B1/sam, a selection made with
\* empty usedPairs returns the pair of A1 and A2 whatever the random choices
\* are, and a selection made after that pair was used reports no pair.
C16_AlexDataset ==
    (portraits = DataAlex /\ history.last.op = "round") =>
        IF history.last.usedBefore = {}
        THEN history.last.pair \in {<<1, 2>>, <<2, 1>>}
        ELSE history.last.pair = NoPair

\* C17: a step that does not call resetGame leaves every key of usedPairs in
\* it (usedPairs is unchanged or has grown); a step that calls resetGame (the
\* steps that remove a game-end overlay: Play Again and the advance past a
\* game end) empties it, so that afterwards it holds only the keys of the
\* rounds selected after the reset.
C17_UsedPairsGrow ==
    [][ IF Len(gameEnd') < Len(gameEnd)
        THEN /\ usedPairs' \subseteq history'.keys
             /\ Cardinality(usedPairs') <= IF PlayAgain THEN 1 ELSE overlay.listeners
        ELSE usedPairs \subseteq usedPairs'
      ]_vars

\* a game of MAX_ROUNDS or more answers has been reset and the first round of
\* the next game selected: usedPairs holds one key
C17_ResetDone ==
    /\ history.answers >= MAX_ROUNDS
    /\ history.sessionAnswers = 0
    /\ history.last.op = "round"
    /\ Cardinality(history.last.usedBefore) = 0
    /\ Cardinality(usedPairs) = 1

\* C18: the score changes only in the step of an answer evaluation
\* (handleRoundResult) and in a step that calls resetGame (a step that
\* removes a game-end overlay), which leaves it at 0/0; the image events,
\* the timers, the summary-fetch callbacks, the start of the game and every
\* gesture that removes no game-end overlay leave both counters unchanged.
\* The score is therefore the number of answers evaluated since the last reset.
C18_ScoreWriters ==
    [][ /\ score' # score =>
              \/ ClickName /\ history'.last.op = "eval"
              \/ Len(gameEnd') < Len(gameEnd) /\ score' = [correct |-> 0, wrong |-> 0]
        /\ score' # score =>
              ~(\/ FetchPortraits \/ ImageLoaded \/ ImageFailed \/ LoadingNoticeTimer
                \/ LoadErrorExpires \/ ShowButtonsTimer \/ SummaryArrives
                \/ SummaryFails \/ LockTimer)
        /\ (score' # score /\ Len(gameEnd') >= Len(gameEnd)) =>
              ~(OverlayGesture \/ MakeOrBreakGesture \/ CleanStrikeGesture)
        /\ score'.correct + score'.wrong = history'.sessionAnswers
      ]_vars

\* a round was selected and its portrait load started while the score stood
\* at one answer
C18_RoundLoadedWithScore ==
    /\ history.last.op = "round"
    /\ history.last.load
    /\ score.correct + score.wrong = 1

\* C19: for a non-empty string, parseCSV returns one record for each line
\* after the header line (the first line that is not blank) that has six or
\* more fields, i.e. five or more semicolons, in the order of the lines; the
\* fields of the record are the first six fields of the line without their
\* surrounding white space (personDescription with its first letter in upper
\* case); lines with fewer fields give no record.  For an empty string, a
\* value that is not a string and a text with no line after the header it
\* returns the empty list.  Every record has all six fields.
C19_ParseCSV ==
    csv.parsed =>
        LET text == csv.text.value
            result == csv.result
            starts == {0} \cup {i \in 1..Len(text) : text[i] = LF}
            ends == {i \in 1..Len(text) : text[i] = LF} \cup {Len(text) + 1}
            nLines == Cardinality(starts)
            \* the n-th line: from after the (n-1)-th LF to before the n-th
            nth(S, n) == CHOOSE x \in S : Cardinality({y \in S : y < x}) = n - 1
            line(n) == SubSeq(text, nth(starts, n) + 1, nth(ends, n) - 1)
            blank(l) == \A i \in 1..Len(l) : l[i] \in WS
            semis(l) == {i \in 1..Len(l) : l[i] = SEMI}
            header == CHOOSE n \in 1..nLines :
                          ~blank(line(n)) /\ \A m \in 1..(n - 1) : blank(line(m))
            rows == {n \in 1..nLines : n > header /\ Cardinality(semis(line(n))) >= 5}
            \* the k-th field of line l (k <= number of semicolons)
            field(l, k) ==
                LET a == IF k = 1 THEN 0 ELSE nth(semis(l), k - 1)
                    b == nth(semis(l) \cup {Len(l) + 1}, k)
                IN  trim(SubSeq(l, a + 1, b - 1))
            sameButCase(x, y) ==
                /\ Len(x) = Len(y)
                /\ \A i \in 2..Len(x) : x[i] = y[i]
                /\ x # <<>> => x[1] \in {y[1], y[1] - 32}
        IN  IF csv.text.type # "string" \/ \A n \in 1..nLines : blank(line(n))
            THEN result = <<>>
            ELSE /\ Len(result) = Cardinality(rows)
                 /\ \A k \in 1..Len(result) :
                       LET l == line(nth(rows, k))
                       IN  /\ DOMAIN result[k] = {"namekey", "imageurl", "person",
                                                  "personLabel", "personDescription",
                                                  "wikipediaENurl"}
                           /\ result[k].namekey = field(l, 1)
                           /\ result[k].imageurl = field(l, 2)
                           /\ result[k].person = field(l, 3)
                           /\ result[k].personLabel = field(l, 4)
                           /\ sameButCase(result[k].personDescription, field(l, 5))
                           /\ result[k].wikipediaENurl = field(l, 6)

\* a text of a header, a complete row, a row of five fields and another
\* complete row has been parsed to two different records
C19_TwoRecordsOneDropped ==
    /\ csv.parsed
    /\ csv.text = JsString(joinLines(<<LineHeader, LineRowPadded, LineRowFive,
                                       LineRowSeven>>))
    /\ Len(csv.result) = 2
    /\ csv.result[1].namekey = <<97>>
    /\ csv.result[2].namekey = <<103>>

\* what selectUniquePairFrom and selectValidPersonPair can do to usedPairs
\* when called in the current state (evaluated where usedPairs is empty and
\* after every selector call, which is where usedPairs takes its values)
SelectorReserves ==
    /\ \A nk \in UniqueNameKeys(portraits) :
          \A r \in selectUniquePairFrom(portraits, FilterIdx(portraits, nk, 1), usedPairs) :
              IF r.pair = NullPair THEN r.usedPairs = usedPairs
              ELSE /\ PairKey(portraits, r.pair) \notin usedPairs
                   /\ r.usedPairs = usedPairs \cup {PairKey(portraits, r.pair)}
    /\ \A r \in selectValidPersonPair(portraits, usedPairs) :
          IF r.pair = NoPair THEN r.usedPairs = usedPairs
          ELSE r.usedPairs = usedPairs \cup {PairKey(portraits, r.pair)}

\* C20: a selectUniquePairFrom call that returns a pair adds the key of that
\* pair, which was not in usedPairs, and nothing else; a call that returns
\* [null, null] and a selectValidPersonPair call that returns the empty result
\* leave usedPairs as it was.  A step with one selector call (one taken
\* where no overlay carries several sets of listeners) whose call returned the
\* empty result leaves usedPairs as the call found it, correctPerson and
\* incorrectPerson as they were, and the score as it was unless the step
\* began with resetGame; a step whose selector call returned a pair has added
\* exactly that pair's key.
C20_ReserveOnSuccessOnly ==
    [][ /\ (history.last.op = "round" \/ usedPairs = {}) => SelectorReserves
        /\ (/\ history'.last.op = "round"
            /\ overlay.listeners <= 1) =>
              IF history'.last.pair = NoPair
              THEN /\ usedPairs' = history'.last.usedBefore
                   /\ correctPerson' = correctPerson
                   /\ incorrectPerson' = incorrectPerson
                   /\ score' = score \/ Len(gameEnd') < Len(gameEnd)
              ELSE /\ usedPairs' = history'.last.usedBefore
                                      \cup {PairKey(portraits', history'.last.pair)}
                   /\ PairKey(portraits', history'.last.pair) \notin history'.last.usedBefore
      ]_vars

\* a selection that returned the empty result in a session in which pairs
\* had been returned before; the candidates of the last round are still set
C20_EmptyAfterRounds ==
    /\ history.last.op = "round"
    /\ history.last.pair = NoPair
    /\ history.last.usedBefore # {}
    /\ usedPairs = history.last.usedBefore
    /\ correctPerson # 0

\* C21: for any two records a and b of the dataset the key of (a, b) is the
\* key of (b, a), and two pairs of records whose sets of ids differ have
\* different keys.
C21_CanonicalKey ==
    LET ps == portraits
        pairs == {q \in (1..Len(ps)) \X (1..Len(ps)) : q[1] # q[2]}
        ids(q) == {ps[q[1]].person, ps[q[2]].person}
    IN  \A p \in pairs :
            /\ PairKey(ps, p) = PairKey(ps, <<p[2], p[1]>>)
            /\ \A q \in pairs : ids(p) # ids(q) => PairKey(ps, p) # PairKey(ps, q)

\* C22: a call of selectValidPersonPair returns, for every dataset and every
\* content of usedPairs; until then it has made at most maxGroupPicks (100)
\* name-group picks and each selectUniquePairFrom call at most maxAttempts
\* (50) pair draws, and what it returns is a pair or the empty result.
C22_SelectionTerminates ==
    /\ [](/\ run.picks <= maxGroupPicks
          /\ run.draws <= maxAttempts
          /\ run.pc = "done" =>
                \/ run.result = NoPair
                \/ run.result \in (1..Len(portraits)) \X (1..Len(portraits)))
    /\ <>(run.pc = "done")

\* the call gave up after 100 picks, the last selectUniquePairFrom call after
\* 50 draws
C22_GaveUpAtBothBounds ==
    /\ run.pc = "done"
    /\ run.result = NoPair
    /\ run.picks = maxGroupPicks
    /\ run.draws = maxAttempts

\* C23: a selectUniquePairFrom call returns [null, null] only when every pair
\* draw it made had a key in usedPairs: a call in which some draw, the last
\* permitted one included, had an unused key returns a pair; and the key of
\* the pair returned is in usedPairs afterwards.
C23_FreshDrawReturned ==
    /\ ~run.missed
    /\ (run.pc = "done" /\ run.result # NoPair) =>
          PairKey(portraits, run.result) \in usedPairs

\* C24: (earlier version) the name buttons that a showNameButtonsWithTimeout
\* call leaves are those of a pair selected in this call, whose key was not in
\* usedPairs before the call; a call whose attempts found no pair leaves no
\* buttons.
C24_ButtonsOfFreshPair ==
    history.last.op = "round" =>
        IF history.last.pair = NoPair THEN buttons = <<>>
        ELSE /\ {buttons[b] : b \in 1..Len(buttons)}
                    = {history.last.pair[1], history.last.pair[2]}
             /\ PairKey(portraits, history.last.pair) \notin history.last.usedBefore

\* C25: (variant with usedNameKeys) pair selection terminates in every
\* reachable session state: a call of prepareNameButtonsWithTimeout that has
\* started comes to its end, also when every name key is in usedNameKeys.
C25_PrepareTerminates == (run.pc = "key") ~> (run.pc = "done")

\* C26: the make-or-break screen is one-shot: at most one exists at any time
\* and it is shown at most once between two resets.
C26_MakeOrBreakOneShot == makeOrBreak <= 1 /\ history.tieScreens <= 1

\* C27: the slow-loading advisory is informational only: at most one
\* 'still loading' notice exists at a time, and a step that raises it is the
\* timer of an image that has neither loaded nor failed (the image is pending
\* before and after the step) and changes neither the score, usedPairs, the
\* current pair nor the name buttons and their visibility.
C27_AdvisoryOnly ==
    /\ [](loadingNotice <= 1)
    /\ [][loadingNotice' > loadingNotice =>
            /\ \E i \in 1..Len(imageLoads) :
                  /\ imageLoads[i].timer
                  /\ imageLoads' = [imageLoads EXCEPT ![i].timer = FALSE]
            /\ UNCHANGED <<score, usedPairs, correctPerson, incorrectPerson,
                           buttons, nameOptionsDisplay>>]_vars

\* the notice is up while its image is pending and the buttons of the round
\* are in the document
C27_NoticeRaised ==
    /\ loadingNotice = 1
    /\ \E i \in 1..Len(imageLoads) : imageLoads[i].cur /\ ~imageLoads[i].timer
    /\ buttons # <<>>

\* C28: once the load of the current portrait has completed, with the load
\* event or with the error event, no 'still loading' notice is displayed.
C28_NoticeGoneAfterLoad ==
    (history.load \in {"loaded", "error"} /\ imageLoads = <<>>) => loadingNotice = 0

\* C29: the notice timer set at the start of showNameButtons can fire while
\* the selection of that call is in progress: whenever the timer is pending
\* and the selection has not returned, the timer's callback is able to run.
C29_NoticeDuringSelection ==
    (run.timer /\ run.pc \in {"pick", "first", "second", "done"})
        => NameSelectionTimerCanFire

\* C30: each presented round is evaluated at most once: an evaluation needs
\* the name buttons, removes both of them in the same step and moves the
\* score by one, so that between two creations of name buttons there is at
\* most one evaluation.
C30_EvaluatedOnce ==
    /\ [](history.evals <= 1)
    /\ [][history'.last.op = "eval" =>
            /\ buttons # <<>>
            /\ buttons' = <<>>
            /\ score'.correct + score'.wrong = score.correct + score.wrong + 1]_vars

\* a round has been evaluated and its buttons are gone
C30_RoundEvaluated ==
    /\ history.last.op = "eval"
    /\ history.evals = 1
    /\ buttons = <<>>
    /\ score.correct + score.wrong = 1

\* C31: one advance gesture starts at most one round: the result overlay in
\* the document never carries more than one set of advance listeners, and no
\* step adds more than one pair key to usedPairs.
C31_OneRoundPerGesture ==
    /\ [](overlay.listeners <= 1)
    /\ [][Cardinality(usedPairs' \ usedPairs) <= 1]_vars

\* C32: both counters of the score stay between 0 and MAX_ROUNDS, and they
\* are never both equal to MAX_ROUNDS.
C32_ScoreBounds ==
    /\ score.correct \in 0..MAX_ROUNDS
    /\ score.wrong \in 0..MAX_ROUNDS
    /\ ~(score.correct = MAX_ROUNDS /\ score.wrong = MAX_ROUNDS)

\* C33: the result of a summary fetch (text or failure placeholder) is
\* written only into the overlay that requested it: a step in which a fetch
\* settles changes at most the summary text of the overlay, and when the
\* fetch that settles is one whose overlay has left the document, it changes
\* nothing of the overlay then shown.
C33_SummaryToOwnOverlay ==
    [][Len(fetches') = Len(fetches) - 1 =>
          /\ [overlay' EXCEPT !.extract = ""] = [overlay EXCEPT !.extract = ""]
          /\ (\A i \in 1..Len(fetches) :
                  fetches' = RemoveAt(fetches, i) => ~fetches[i].cur)
                => overlay' = overlay
      ]_vars

\* The overlay in the document has its own summary and its own lock timer,
\* and behind that timer is the timer of a response that arrived later for
\* an overlay that had left the document (timers are queued as they are set).
C33_LateResponse ==
    /\ overlay.exists
    /\ overlay.extract = "summary"
    /\ fetches = <<>>
    /\ lockTimers = <<[cur |-> TRUE], [cur |-> FALSE]>>

C35_FourOutcomes ==
    [](LET outs == showNameButtons(St)
           n == Len(portraits)
       IN  \A a \in 1..n, b \in 1..n :
               (/\ a # b
                /\ portraits[a].namekey = portraits[b].namekey
                /\ PairKey(portraits, <<a, b>>) \notin usedPairs) =>
                   \A roles \in {<<a, b>>, <<b, a>>}, order \in {<<a, b>>, <<b, a>>} :
                       \E t \in outs : /\ t.correctPerson = roles[1]
                                       /\ t.incorrectPerson = roles[2]
                                       /\ t.buttons = order)

\* a round has started in which the second record is correct and its label
\* is on the second button
C35_SecondCorrectShownSecond ==
    /\ portraits = DataAlex
    /\ history.last.op = "round"
    /\ correctPerson = 2
    /\ incorrectPerson = 1
    /\ buttons = <<1, 2>>

====
